---- MODULE Spec2Model ----
(***************************************************************************)
(* The Pathoscope workflow of src/workflow.py as a state machine.          *)
(*                                                                         *)
(* The seven steps run in their declared order.  A mapping step is an      *)
(* aligner run that feeds its output to the step's stdout_handler one line *)
(* at a time; the handler either returns (rejecting or accepting the line) *)
(* or raises.  An exception raised by a handler, a nonzero exit of the     *)
(* aligner or of the index builder, or an exception raised by the body of  *)
(* a step ends the run (pc = "failed").                                    *)
(*                                                                         *)
(* Scores are counted in units of 0.01, so that p_score_cutoff is 1.       *)
(* Coverage is counted in thousandths (round(x, 3) keeps three decimals).  *)
(***************************************************************************)
EXTENDS Integers, Sequences, FiniteSets, TLC

VARIABLES
    pc,            \* position of the run: the step being executed
    err,           \* the exception that ended the run, "none" while it runs
    nlines,        \* lines the running aligner has handed to the handler
    outcome,       \* how the last stdout_handler call ended
    accepted,      \* first pass: reference ids of the records accepted so far
    intermediate,  \* the shared namespace of the intermediate fixture
    to_subtraction,\* the local dict of map_subtractions
    files,         \* the alignment files under isolate_path
    targeted,      \* what the targeted pass had written when it returned
    report,        \* reassignment: the keys of the report, in order
    read_count,    \* reassignment: the local read_count
    pi,            \* reassignment: the abundance vector run_patho returned
    hits,          \* reassignment: the local list hits
    results        \* the results dict

vars == <<pc, err, nlines, outcome, accepted, intermediate, to_subtraction,
          files, targeted, report, read_count, pi, hits, results>>

----------------------------------------------------------------------------
(* Bounds *)

MaxLines == 2
MaxRefLen == 2
MaxDepth == 2
MaxIter == 2
MaxAlignments == 3

----------------------------------------------------------------------------
(* Aligner output lines *)

p_score_cutoff == 1

SeqIds == {"s1", "s2"}
Scores == {0, 1, 2}

\* A line, by what the handlers read of it: f0 is the text before the first
\* tab ("" for a line without characters), nf the number of tab-separated
\* fields, flag and ref the second and third field, pos the fourth, seqlen
\* the length of the tenth, score what find_sam_align_score returns for it.
\* Fields the line does not have are "-" or 0.
Rec(f0, flag, ref, score) ==
    [f0 |-> f0, nf |-> 12, flag |-> flag, ref |-> ref, pos |-> 1,
     seqlen |-> 2, score |-> score]

Short(f0, nf, flag) ==
    [f0 |-> f0, nf |-> nf, flag |-> flag, ref |-> "-", pos |-> 0,
     seqlen |-> 0, score |-> 0]

Lines ==
    {Rec(r, "0", s, p) : r \in {"r1"}, s \in SeqIds, p \in Scores}
    \cup {Rec("r2", "0", "s1", p) : p \in Scores}
    \cup {Rec("r1", f, "s1", 2) : f \in {"4", "16", "20"}}
    \cup {Rec("r1", "0", "*", 2), Rec("r2", "x", "s1", 2)}
    \cup {Short("", 1, "-"), Short("r1", 1, "-"), Short("r1", 2, "0"),
          Short("r1", 2, "4")}
    \cup {Short("@HD", 1, "-"), Short("#", 1, "-"), Short("#c", 1, "-"),
          Rec("@HD", "0", "s1", 2), Rec("#c", "0", "s1", 2)}

\* line[0]: the first character of a line that has one.
FirstChar(l) ==
    CASE l.f0 = "@HD" -> "@"
      [] l.f0 \in {"#", "#c"} -> "#"
      [] OTHER -> "r"

\* line == "#": the whole line is the one character.
IsHash(l) == l.f0 = "#" /\ l.nf = 1

\* int(fields[1]) raises ValueError on a field that is no number.
IsNumber(s) == s \in {"0", "4", "16", "20"}

int(s) ==
    CASE s = "0" -> 0
      [] s = "4" -> 4
      [] s = "16" -> 16
      [] s = "20" -> 20

\* n & 0x4
And4(n) == IF (n \div 4) % 2 = 1 THEN 4 ELSE 0

\* The score extractor of the pathoscope collaborator: a pure function of
\* the record's fields.
find_sam_align_score(l) == l.score

----------------------------------------------------------------------------
(* The three stdout handlers: how a call ends *)

Raised == {"IndexError", "ValueError"}

\* map_default_isolates' handler without the cutoff test.
map_default_isolates_stdout_handler_NoCutoff(l) ==
    IF l.f0 = "" THEN "IndexError"
    ELSE IF FirstChar(l) = "#" \/ FirstChar(l) = "@" THEN "header"
    ELSE IF l.nf < 2 THEN "IndexError"
    ELSE IF ~IsNumber(l.flag) THEN "ValueError"
    ELSE IF And4(int(l.flag)) = 4 THEN "unmapped"
    ELSE IF l.nf < 3 THEN "IndexError"
    ELSE IF l.ref = "*" THEN "noref"
    ELSE "accepted"

\* stdout_handler of map_default_isolates.
map_default_isolates_stdout_handler(l) ==
    IF l.f0 = "" THEN "IndexError"
    ELSE IF FirstChar(l) = "#" \/ FirstChar(l) = "@" THEN "header"
    ELSE IF l.nf < 2 THEN "IndexError"
    ELSE IF ~IsNumber(l.flag) THEN "ValueError"
    ELSE IF And4(int(l.flag)) = 4 THEN "unmapped"
    ELSE IF l.nf < 3 THEN "IndexError"
    ELSE IF l.ref = "*" THEN "noref"
    ELSE IF find_sam_align_score(l) < p_score_cutoff THEN "lowscore"
    ELSE "accepted"

\* map_isolates' handler without the test of the reference id.
map_isolates_stdout_handler_NoRefTest(l) ==
    IF l.f0 = "" THEN "IndexError"
    ELSE IF FirstChar(l) = "@" \/ IsHash(l) THEN "header"
    ELSE IF l.nf < 2 THEN "IndexError"
    ELSE IF ~IsNumber(l.flag) THEN "ValueError"
    ELSE IF And4(int(l.flag)) = 4 THEN "unmapped"
    ELSE IF l.nf < 3 THEN "IndexError"
    ELSE IF find_sam_align_score(l) < p_score_cutoff THEN "lowscore"
    ELSE "accepted"

\* stdout_handler of map_isolates: the header test is
\* line[0] == "@" or line == "#".
map_isolates_stdout_handler(l) ==
    IF l.f0 = "" THEN "IndexError"
    ELSE IF FirstChar(l) = "@" \/ IsHash(l) THEN "header"
    ELSE IF l.nf < 2 THEN "IndexError"
    ELSE IF ~IsNumber(l.flag) THEN "ValueError"
    ELSE IF And4(int(l.flag)) = 4 THEN "unmapped"
    ELSE IF l.nf < 3 THEN "IndexError"
    ELSE IF l.ref = "*" THEN "noref"
    ELSE IF find_sam_align_score(l) < p_score_cutoff THEN "lowscore"
    ELSE "accepted"

\* stdout_handler of map_subtractions: the same header test, no cutoff.
map_subtractions_stdout_handler(l) ==
    IF l.f0 = "" THEN "IndexError"
    ELSE IF FirstChar(l) = "@" \/ IsHash(l) THEN "header"
    ELSE IF l.nf < 2 THEN "IndexError"
    ELSE IF ~IsNumber(l.flag) THEN "ValueError"
    ELSE IF And4(int(l.flag)) = 4 THEN "unmapped"
    ELSE IF l.nf < 3 THEN "IndexError"
    ELSE IF l.ref = "*" THEN "noref"
    ELSE "accepted"

\* The VTA line with the position and the read length in each other's place.
VtaRecord_Swapped(l) ==
    <<l.f0, l.ref, l.seqlen, l.pos, find_sam_align_score(l)>>

\* The line map_isolates writes to the VTA file for an accepted record.
VtaRecord(l) == <<l.f0, l.ref, l.pos, l.seqlen, find_sam_align_score(l)>>

----------------------------------------------------------------------------
(* Values *)

None == <<>>
Some(v) == <<v>>

EmptyDict == [k \in {} |-> 0]

\* d[key] = v
DictSet(d, key, v) ==
    [k \in DOMAIN d \cup {key} |-> IF k = key THEN v ELSE d[k]]

VtaPath == "isolates/to_isolates.vta"
SubtractedPath == "isolates/subtracted.vta"
ReassignedPath == "isolates/reassigned.vta"
Paths == {VtaPath, SubtractedPath, ReassignedPath}

\* fasta_path of write_isolate_fasta is a one-element tuple (trailing comma).
FastaPath == <<"isolates/isolate_index.fa">>

\* The length of each reference sequence of the index.
SeqLength(s) == IF s = "s1" THEN 2 ELSE 1

\* index.write_isolate_fasta: the length table of the sequences written.
write_isolate_fasta_lengths(otus) == [s \in otus |-> SeqLength(s)]

\* A vector of fractions over references: num[r] / den.  iterations counts
\* the updates that produced it.
NoVector == [num |-> EmptyDict, den |-> 1, iterations |-> 0]

Init ==
    /\ pc = "map_default_isolates"
    /\ err = "none"
    /\ nlines = 0
    /\ outcome = "none"
    /\ accepted = <<>>
    /\ intermediate = [to_otus |-> {}, lengths |-> None,
                       isolate_fasta_path |-> None, isolate_vta_path |-> None,
                       isolate_mapped_fastq_path |-> None,
                       isolate_bt2_path |-> None, to_subtraction |-> None,
                       coverage |-> [state |-> "unset", table |-> EmptyDict]]
    /\ to_subtraction = EmptyDict
    /\ files = [p \in Paths |-> None]
    /\ targeted = <<>>
    /\ report = <<>>
    /\ read_count = 0
    /\ pi = NoVector
    /\ hits = <<>>
    /\ results = [subtracted_count |-> None, ready |-> None,
                  read_count |-> None, results |-> None]

----------------------------------------------------------------------------
(* map_default_isolates *)

\* The first pass with the candidate set assigned instead of added to.
map_default_isolates_line_Assign(l) ==
    /\ pc = "map_default_isolates"
    /\ nlines < MaxLines
    /\ LET o == map_default_isolates_stdout_handler(l) IN
        /\ outcome' = o
        /\ nlines' = nlines + 1
        /\ pc' = IF o \in Raised THEN "failed" ELSE pc
        /\ err' = IF o \in Raised THEN o ELSE err
        /\ intermediate' =
               IF o = "accepted"
               THEN [intermediate EXCEPT !.to_otus = {l.ref}]
               ELSE intermediate
        /\ accepted' = IF o = "accepted" THEN Append(accepted, l.ref)
                       ELSE accepted
    /\ UNCHANGED <<to_subtraction, files, targeted, report, read_count, pi, hits,
                   results>>

map_default_isolates_line(l) ==
    /\ pc = "map_default_isolates"
    /\ nlines < MaxLines
    /\ LET o == map_default_isolates_stdout_handler(l) IN
        /\ outcome' = o
        /\ nlines' = nlines + 1
        /\ pc' = IF o \in Raised THEN "failed" ELSE pc
        /\ err' = IF o \in Raised THEN o ELSE err
        /\ intermediate' =
               IF o = "accepted"
               THEN [intermediate EXCEPT !.to_otus = @ \cup {l.ref}]
               ELSE intermediate
        /\ accepted' = IF o = "accepted" THEN Append(accepted, l.ref)
                       ELSE accepted
    /\ UNCHANGED <<to_subtraction, files, targeted, report, read_count, pi, hits, results>>

\* The aligner exits with a nonzero status: run_subprocess raises.
map_default_isolates_fail ==
    /\ pc = "map_default_isolates"
    /\ pc' = "failed"
    /\ err' = "SubprocessError"
    /\ UNCHANGED <<nlines, outcome, accepted, intermediate, to_subtraction,
                   files, targeted, report, read_count, pi, hits, results>>

map_default_isolates_return ==
    /\ pc = "map_default_isolates"
    /\ pc' = "write_isolate_fasta"
    /\ nlines' = 0
    /\ outcome' = "none"
    /\ accepted' = <<>>
    /\ UNCHANGED <<err, intermediate, to_subtraction, files, targeted, report, read_count, pi,
                   hits, results>>

----------------------------------------------------------------------------
(* write_isolate_fasta, build_isolate_index *)

\* write_isolate_fasta without the assignment of isolate_fasta_path.
write_isolate_fasta_NoPath ==
    /\ pc = "write_isolate_fasta"
    /\ intermediate' =
           [intermediate EXCEPT
              !.lengths = Some(write_isolate_fasta_lengths(intermediate.to_otus))]
    /\ pc' = "build_isolate_index"
    /\ UNCHANGED <<err, nlines, outcome, accepted, to_subtraction, files,
                   targeted, report, read_count, pi, hits, results>>

\* write_isolate_fasta taking the ids out of to_otus as it reads them.
write_isolate_fasta_Drain ==
    /\ pc = "write_isolate_fasta"
    /\ intermediate' =
           [intermediate EXCEPT
              !.lengths = Some(write_isolate_fasta_lengths(intermediate.to_otus)),
              !.isolate_fasta_path = Some(FastaPath),
              !.to_otus = {}]
    /\ pc' = "build_isolate_index"
    /\ UNCHANGED <<err, nlines, outcome, accepted, to_subtraction, files,
                   targeted, report, read_count, pi, hits, results>>

write_isolate_fasta ==
    /\ pc = "write_isolate_fasta"
    /\ intermediate' =
           [intermediate EXCEPT
              !.lengths = Some(write_isolate_fasta_lengths(intermediate.to_otus)),
              !.isolate_fasta_path = Some(FastaPath)]
    /\ pc' = "build_isolate_index"
    /\ UNCHANGED <<err, nlines, outcome, accepted, to_subtraction, files,
                   targeted, report, read_count, pi, hits, results>>

\* index.write_isolate_fasta raises.
write_isolate_fasta_fail ==
    /\ pc = "write_isolate_fasta"
    /\ pc' = "failed"
    /\ err' = "WriteFastaError"
    /\ UNCHANGED <<nlines, outcome, accepted, intermediate, to_subtraction,
                   files, targeted, report, read_count, pi, hits, results>>

build_isolate_index ==
    /\ pc = "build_isolate_index"
    /\ intermediate.isolate_fasta_path # None
    /\ pc' = "map_isolates"
    /\ UNCHANGED <<err, nlines, outcome, accepted, intermediate,
                   to_subtraction, files, targeted, report, read_count, pi, hits, results>>

\* bowtie2-build exits with a nonzero status.
build_isolate_index_fail ==
    /\ pc = "build_isolate_index"
    /\ pc' = "failed"
    /\ err' = "SubprocessError"
    /\ UNCHANGED <<nlines, outcome, accepted, intermediate, to_subtraction,
                   files, targeted, report, read_count, pi, hits, results>>

----------------------------------------------------------------------------
(* map_isolates *)

\* async with aiofiles.open(vta_path, "w"): the file is created empty.
\* map_isolates publishing the VTA path as soon as the file is opened.
map_isolates_open_Publish ==
    /\ pc = "map_isolates"
    /\ files' = [files EXCEPT ![VtaPath] = Some(<<>>)]
    /\ intermediate' =
           [intermediate EXCEPT !.isolate_vta_path = Some(VtaPath)]
    /\ pc' = "map_isolates_run"
    /\ UNCHANGED <<err, nlines, outcome, accepted, to_subtraction, targeted,
                   report, read_count, pi, hits, results>>

map_isolates_open ==
    /\ pc = "map_isolates"
    /\ files' = [files EXCEPT ![VtaPath] = Some(<<>>)]
    /\ pc' = "map_isolates_run"
    /\ UNCHANGED <<err, nlines, outcome, accepted, intermediate,
                   to_subtraction, targeted, report, read_count, pi, hits, results>>

map_isolates_line(l) ==
    /\ pc = "map_isolates_run"
    /\ nlines < MaxLines
    /\ LET o == map_isolates_stdout_handler(l) IN
        /\ outcome' = o
        /\ nlines' = nlines + 1
        /\ pc' = IF o \in Raised THEN "failed" ELSE pc
        /\ err' = IF o \in Raised THEN o ELSE err
        /\ files' =
               IF o = "accepted"
               THEN [files EXCEPT
                       ![VtaPath] = Some(Append(@[1], VtaRecord(l)))]
               ELSE files
    /\ UNCHANGED <<accepted, intermediate, to_subtraction, targeted, report, read_count, pi,
                   hits, results>>

map_isolates_fail ==
    /\ pc = "map_isolates_run"
    /\ pc' = "failed"
    /\ err' = "SubprocessError"
    /\ UNCHANGED <<nlines, outcome, accepted, intermediate, to_subtraction,
                   files, targeted, report, read_count, pi, hits, results>>

map_isolates_return ==
    /\ pc = "map_isolates_run"
    /\ intermediate' =
           [intermediate EXCEPT
              !.isolate_vta_path = Some(VtaPath),
              !.isolate_mapped_fastq_path = Some("isolates/mapped.fastq"),
              !.isolate_bt2_path = Some("isolates/isolates")]
    /\ targeted' = files[VtaPath][1]
    /\ pc' = "map_subtractions"
    /\ nlines' = 0
    /\ outcome' = "none"
    /\ UNCHANGED <<err, accepted, to_subtraction, files, report, read_count, pi, hits,
                   results>>

----------------------------------------------------------------------------
(* map_subtractions *)

map_subtractions_line(l) ==
    /\ pc = "map_subtractions"
    /\ intermediate.isolate_mapped_fastq_path # None
    /\ nlines < MaxLines
    /\ LET o == map_subtractions_stdout_handler(l) IN
        /\ outcome' = o
        /\ nlines' = nlines + 1
        /\ pc' = IF o \in Raised THEN "failed" ELSE pc
        /\ err' = IF o \in Raised THEN o ELSE err
        /\ to_subtraction' =
               IF o = "accepted"
               THEN DictSet(to_subtraction, l.f0, find_sam_align_score(l))
               ELSE to_subtraction
    /\ UNCHANGED <<accepted, intermediate, files, targeted, report, read_count, pi, hits,
                   results>>

map_subtractions_fail ==
    /\ pc = "map_subtractions"
    /\ pc' = "failed"
    /\ err' = "SubprocessError"
    /\ UNCHANGED <<nlines, outcome, accepted, intermediate, to_subtraction,
                   files, targeted, report, read_count, pi, hits, results>>

map_subtractions_return ==
    /\ pc = "map_subtractions"
    /\ intermediate' =
           [intermediate EXCEPT !.to_subtraction = Some(to_subtraction)]
    /\ pc' = "subtract_mapping"
    /\ nlines' = 0
    /\ outcome' = "none"
    /\ UNCHANGED <<err, accepted, to_subtraction, files, targeted, report, read_count, pi,
                   hits, results>>

----------------------------------------------------------------------------
(* subtract_mapping *)

\* A record of the targeted pass is dropped when the host score table holds
\* its read with a score at least the record's.
Dropped(rec, host) == rec[1] \in DOMAIN host /\ host[rec[1]] >= rec[5]

Kept(vta, host) == SelectSeq(vta, LAMBDA rec : ~Dropped(rec, host))

\* pathoscope.subtract: writes the surviving records to output_path and
\* returns the number of reads dropped.
subtract(fs, vta_path, output_path, host) ==
    [fs |-> [fs EXCEPT ![output_path] = Some(Kept(fs[vta_path][1], host))],
     count |-> Cardinality({fs[vta_path][1][i][1] :
                   i \in {j \in 1..Len(fs[vta_path][1]) :
                            Dropped(fs[vta_path][1][j], host)}})]

\* pathoscope.replace_after_subtraction(src, dst): dst is removed and src
\* is moved to it.
replace_after_subtraction(fs, src, dst) ==
    [fs EXCEPT ![dst] = fs[src], ![src] = None]

\* subtract_mapping without the call of replace_after_subtraction.
subtract_mapping_NoReplace ==
    /\ pc = "subtract_mapping"
    /\ intermediate.isolate_vta_path # None
    /\ intermediate.to_subtraction # None
    /\ LET vta_path == intermediate.isolate_vta_path[1]
           sub == subtract(files, vta_path, SubtractedPath,
                           intermediate.to_subtraction[1])
       IN /\ files' = sub.fs
          /\ results' = [results EXCEPT !.subtracted_count = Some(sub.count)]
    /\ pc' = "reassignment"
    /\ UNCHANGED <<err, nlines, outcome, accepted, intermediate,
                   to_subtraction, targeted, report, read_count, pi, hits>>

subtract_mapping ==
    /\ pc = "subtract_mapping"
    /\ intermediate.isolate_vta_path # None
    /\ intermediate.to_subtraction # None
    /\ LET vta_path == intermediate.isolate_vta_path[1]
           sub == subtract(files, vta_path, SubtractedPath,
                           intermediate.to_subtraction[1])
       IN /\ files' = replace_after_subtraction(sub.fs, SubtractedPath,
                                                vta_path)
          /\ results' = [results EXCEPT !.subtracted_count = Some(sub.count)]
    /\ pc' = "reassignment"
    /\ UNCHANGED <<err, nlines, outcome, accepted, intermediate,
                   to_subtraction, targeted, report, read_count, pi, hits>>

----------------------------------------------------------------------------
(* reassignment *)

RECURSIVE Uniq(_)
\* The distinct elements of a sequence, in the order they first appear.
Uniq(s) ==
    IF s = <<>> THEN <<>>
    ELSE LET init == Uniq(SubSeq(s, 1, Len(s) - 1))
             last == s[Len(s)]
         IN IF \E i \in 1..Len(init) : init[i] = last THEN init
            ELSE Append(init, last)

Column(vta, c) == [i \in 1..Len(vta) |-> vta[i][c]]

RefRank(s) == IF s = "s1" THEN 1 ELSE 2

\* The record the reassignment pass retains for a read: its most probable
\* reference, ties broken by reference id.
Retained(vta, read) ==
    CHOOSE i \in 1..Len(vta) :
        /\ vta[i][1] = read
        /\ \A j \in 1..Len(vta) :
              vta[j][1] = read =>
                  \/ vta[j][5] < vta[i][5]
                  \/ vta[j][5] = vta[i][5] /\ RefRank(vta[i][2]) < RefRank(vta[j][2])
                  \/ vta[j][5] = vta[i][5] /\ vta[j][2] = vta[i][2] /\ i <= j

\* pathoscope.run_patho on the alignment set: the references and the reads
\* it names, and the reassigned set it writes (one record per read).
run_patho(vta) ==
    LET reads == Uniq(Column(vta, 1)) IN
    [refs |-> Uniq(Column(vta, 2)),
     reads |-> reads,
     reassigned |-> [k \in 1..Len(reads) |-> vta[Retained(vta, reads[k])]]]

RECURSIVE SumOver(_, _)
\* The sum of f over the set S.
SumOver(f, S) ==
    IF S = {} THEN 0
    ELSE LET x == CHOOSE x \in S : TRUE IN f[x] + SumOver(f, S \ {x})

RECURSIVE ProdOver(_, _)
\* The product of f over the set S.
ProdOver(f, S) ==
    IF S = {} THEN 1
    ELSE LET x == CHOOSE x \in S : TRUE IN f[x] * ProdOver(f, S \ {x})

RECURSIVE Gcd(_, _)
Gcd(a, b) == IF b = 0 THEN a ELSE Gcd(b, a % b)

RECURSIVE GcdOver(_, _)
GcdOver(f, S) ==
    IF S = {} THEN 0
    ELSE LET x == CHOOSE x \in S : TRUE IN Gcd(f[x], GcdOver(f, S \ {x}))

\* The fractions in lowest terms.
Reduce(p) ==
    LET g == Gcd(p.den, GcdOver(p.num, DOMAIN p.num)) IN
    IF g = 0 THEN p
    ELSE [p EXCEPT !.num = [r \in DOMAIN p.num |-> p.num[r] \div g],
                   !.den = p.den \div g]

RefSet(vta) == {vta[i][2] : i \in 1..Len(vta)}
ReadSet(vta) == {vta[i][1] : i \in 1..Len(vta)}

\* The candidate references of a read; a read with one is unambiguous.
RefsOf(vta, read) == {vta[i][2] : i \in {j \in 1..Len(vta) : vta[j][1] = read}}

\* The initial abundances: each reference's share of the reads it is the
\* best-scoring reference of.
init_pi(vta) ==
    [num |-> [r \in RefSet(vta) |->
                 Cardinality({read \in ReadSet(vta) :
                                vta[Retained(vta, read)][2] = r})],
     den |-> Cardinality(ReadSet(vta)),
     iterations |-> 0]

\* score x abundance of the records of read that name reference r (over
\* the denominator of p).
Weight(vta, p, read, r) ==
    LET idx == {i \in 1..Len(vta) : vta[i][1] = read /\ vta[i][2] = r} IN
    SumOver([i \in idx |-> vta[i][5] * p.num[r]], idx)

\* One update whose abundances are summed over the ambiguous reads alone.
em_step_AmbiguousOnly(vta, p) ==
    LET refs == RefSet(vta)
        reads == ReadSet(vta)
        amb == {read \in reads : Cardinality(RefsOf(vta, read)) > 1}
        total == [read \in amb |->
                    SumOver([r \in refs |-> Weight(vta, p, read, r)], refs)]
        all == ProdOver(total, amb)
        share(read, r) == Weight(vta, p, read, r) * ProdOver(total, amb \ {read})
    IN Reduce([num |-> [r \in refs |->
                          SumOver([read \in amb |-> share(read, r)], amb)],
               den |-> Cardinality(reads) * all,
               iterations |-> p.iterations + 1])

\* One update: an ambiguous read is shared among its candidate references
\* in proportion to score x abundance, an unambiguous read goes to its one
\* reference, and each abundance is the sum of the shares over the number
\* of reads.
em_step(vta, p) ==
    LET refs == RefSet(vta)
        reads == ReadSet(vta)
        amb == {read \in reads : Cardinality(RefsOf(vta, read)) > 1}
        total == [read \in amb |->
                    SumOver([r \in refs |-> Weight(vta, p, read, r)], refs)]
        all == ProdOver(total, amb)
        share(read, r) ==
            IF read \in amb
            THEN Weight(vta, p, read, r) * ProdOver(total, amb \ {read})
            ELSE IF r \in RefsOf(vta, read) THEN all ELSE 0
    IN Reduce([num |-> [r \in refs |->
                          SumOver([read \in reads |-> share(read, r)], reads)],
               den |-> Cardinality(reads) * all,
               iterations |-> p.iterations + 1])

RECURSIVE em(_, _, _)
em(vta, p, n) == IF n = 0 THEN p ELSE em(vta, em_step(vta, p), n - 1)

\* The abundance vector of pathoscope.run_patho when its iteration stops
\* after n updates.
run_patho_pi(vta, n) == em(vta, Reduce(init_pi(vta)), n)

\* pathoscope.write_report: one entry per reference, in the order of refs.
write_report(refs) == refs

\* Lines 310-356: the reassignment pass, the report, and the dispatch of
\* calculate_coverage, whose result is stored without being awaited.
reassignment ==
    /\ pc = "reassignment"
    /\ intermediate.isolate_vta_path # None
    /\ files[intermediate.isolate_vta_path[1]] # None
    /\ LET patho == run_patho(files[intermediate.isolate_vta_path[1]][1]) IN
        /\ files' = [files EXCEPT ![ReassignedPath] = Some(patho.reassigned)]
        /\ read_count' = Len(patho.reads)
        /\ report' = write_report(patho.refs)
    /\ \E n \in 1..MaxIter :
          pi' = run_patho_pi(files[intermediate.isolate_vta_path[1]][1], n)
    /\ intermediate' =
           [intermediate EXCEPT
              !.coverage = [state |-> "pending", table |-> EmptyDict]]
    /\ hits' = <<>>
    /\ pc' = "hits"
    /\ UNCHANGED <<err, nlines, outcome, accepted, to_subtraction, targeted,
                   results>>

\* index.get_otu_id_by_sequence_id and index.manifest.
get_otu_id_by_sequence_id(s) == IF s = "s1" THEN "otu1" ELSE "otu2"
manifest(otu) == IF otu = "otu1" THEN 3 ELSE 7

\* round(n / d) of Python 3: to the nearest integer, halves to the even one.
round(n, d) ==
    LET q == n \div d
        r == n % d
    IN IF 2 * r < d THEN q
       ELSE IF 2 * r > d THEN q + 1
       ELSE IF q % 2 = 0 THEN q ELSE q + 1

RECURSIVE sum(_)
sum(a) == IF a = <<>> THEN 0 ELSE a[1] + sum(Tail(a))

\* hit_coverage.count(0)
count0(a) == Cardinality({i \in 1..Len(a) : a[i] = 0})

\* The coverage without the "1 -": the share of the zero-depth positions.
hit_coverage_value_ZeroShare(a) == round(1000 * count0(a), Len(a))

\* round(1 - hit_coverage.count(0) / len(hit_coverage), 3), in thousandths.
hit_coverage_value(a) == round(1000 * (Len(a) - count0(a)), Len(a))

\* round(sum(hit_coverage) / len(hit_coverage))
hit_depth_value(a) == round(sum(a), Len(a))

\* How the body of the loop over report.items() ends for sequence_id.
hit_error(cov, sequence_id) ==
    IF cov.state # "done" THEN "TypeError"
    ELSE IF sequence_id \notin DOMAIN cov.table THEN "KeyError"
    ELSE IF Len(cov.table[sequence_id]) = 0 THEN "ZeroDivisionError"
    ELSE "none"

\* The hit with the OTU id stored as its id.
make_hit_OtuAsId(cov, sequence_id) ==
    [id |-> get_otu_id_by_sequence_id(sequence_id),
     otu |-> [id |-> get_otu_id_by_sequence_id(sequence_id),
              version |-> manifest(get_otu_id_by_sequence_id(sequence_id))],
     coverage |-> hit_coverage_value(cov.table[sequence_id]),
     depth |-> hit_depth_value(cov.table[sequence_id])]

make_hit(cov, sequence_id) ==
    [id |-> sequence_id,
     otu |-> [id |-> get_otu_id_by_sequence_id(sequence_id),
              version |-> manifest(get_otu_id_by_sequence_id(sequence_id))],
     coverage |-> hit_coverage_value(cov.table[sequence_id]),
     depth |-> hit_depth_value(cov.table[sequence_id])]

\* One pass of the loop of lines 358-379.
hits_loop_body ==
    /\ pc = "hits"
    /\ Len(hits) < Len(report)
    /\ LET sequence_id == report[Len(hits) + 1]
           e == hit_error(intermediate.coverage, sequence_id)
       IN IF e # "none"
          THEN /\ pc' = "failed"
               /\ err' = e
               /\ hits' = hits
          ELSE /\ hits' = Append(hits, make_hit(intermediate.coverage,
                                                sequence_id))
               /\ UNCHANGED <<pc, err>>
    /\ UNCHANGED <<nlines, outcome, accepted, intermediate, to_subtraction,
                   files, targeted, report, read_count, pi, results>>

\* results.update of lines 381-385.
\* The final update replacing the results instead of updating them.
hits_loop_end_Overwrite ==
    /\ pc = "hits"
    /\ Len(hits) = Len(report)
    /\ results' = [subtracted_count |-> None,
                   ready |-> Some(TRUE),
                   read_count |-> Some(read_count),
                   results |-> Some(hits)]
    /\ pc' = "done"
    /\ UNCHANGED <<err, nlines, outcome, accepted, intermediate,
                   to_subtraction, files, targeted, report, read_count, pi, hits>>

hits_loop_end ==
    /\ pc = "hits"
    /\ Len(hits) = Len(report)
    /\ results' = [results EXCEPT !.ready = Some(TRUE),
                                  !.read_count = Some(read_count),
                                  !.results = Some(hits)]
    /\ pc' = "done"
    /\ UNCHANGED <<err, nlines, outcome, accepted, intermediate,
                   to_subtraction, files, targeted, report, read_count, pi, hits>>

----------------------------------------------------------------------------
(* The run *)

Next ==
    \/ \E l \in Lines : map_default_isolates_line(l)
    \/ map_default_isolates_fail
    \/ map_default_isolates_return
    \/ write_isolate_fasta
    \/ write_isolate_fasta_fail
    \/ build_isolate_index
    \/ build_isolate_index_fail
    \/ map_isolates_open
    \/ \E l \in Lines : map_isolates_line(l)
    \/ map_isolates_fail
    \/ map_isolates_return
    \/ \E l \in Lines : map_subtractions_line(l)
    \/ map_subtractions_fail
    \/ map_subtractions_return
    \/ subtract_mapping
    \/ reassignment
    \/ hits_loop_body
    \/ hits_loop_end

Spec == Init /\ [][Next]_vars

----------------------------------------------------------------------------
(* The loop that builds the hits, over the coverage tables it can be given *)

DepthArrays == UNION {[1..n -> 0..MaxDepth] : n \in 0..MaxRefLen}

Reports == {<<>>, <<"s1">>, <<"s2">>, <<"s1", "s2">>, <<"s2", "s1">>}

InitHits ==
    /\ pc = "hits"
    /\ err = "none"
    /\ nlines = 0
    /\ outcome = "none"
    /\ accepted = <<>>
    /\ \E t \in [SeqIds -> DepthArrays] :
         intermediate = [to_otus |-> SeqIds,
                         lengths |-> Some([s \in SeqIds |-> Len(t[s])]),
                         isolate_fasta_path |-> Some(FastaPath),
                         isolate_vta_path |-> Some(VtaPath),
                         isolate_mapped_fastq_path |-> Some("isolates/mapped.fastq"),
                         isolate_bt2_path |-> Some("isolates/isolates"),
                         to_subtraction |-> Some(EmptyDict),
                         coverage |-> [state |-> "done", table |-> t]]
    /\ to_subtraction = EmptyDict
    /\ files = [p \in Paths |-> None]
    /\ targeted = <<>>
    /\ report \in Reports
    /\ read_count = Len(report)
    /\ pi = NoVector
    /\ hits = <<>>
    /\ results = [subtracted_count |-> Some(0), ready |-> None,
                  read_count |-> None, results |-> None]

NextHits ==
    \/ hits_loop_body
    \/ hits_loop_end

SpecHits == InitHits /\ [][NextHits]_vars

----------------------------------------------------------------------------
(* The reassignment step, over the alignment sets it can be given *)

\* The records the targeted pass can write.
AlignmentRecords ==
    {VtaRecord(l) : l \in {x \in Lines :
                             map_isolates_stdout_handler(x) = "accepted"}}

AlignmentSets ==
    UNION {[1..n -> AlignmentRecords] : n \in 0..MaxAlignments}

InitPatho ==
    /\ pc = "reassignment"
    /\ err = "none"
    /\ nlines = 0
    /\ outcome = "none"
    /\ accepted = <<>>
    /\ intermediate = [to_otus |-> SeqIds,
                       lengths |-> Some(write_isolate_fasta_lengths(SeqIds)),
                       isolate_fasta_path |-> Some(FastaPath),
                       isolate_vta_path |-> Some(VtaPath),
                       isolate_mapped_fastq_path |-> Some("isolates/mapped.fastq"),
                       isolate_bt2_path |-> Some("isolates/isolates"),
                       to_subtraction |-> Some(EmptyDict),
                       coverage |-> [state |-> "unset", table |-> EmptyDict]]
    /\ to_subtraction = EmptyDict
    /\ \E v \in AlignmentSets :
         /\ files = [p \in Paths |-> IF p = VtaPath THEN Some(v) ELSE None]
         /\ targeted = v
    /\ report = <<>>
    /\ read_count = 0
    /\ pi = NoVector
    /\ hits = <<>>
    /\ results = [subtracted_count |-> Some(0), ready |-> None,
                  read_count |-> None, results |-> None]

NextPatho ==
    \/ reassignment
    \/ hits_loop_body
    \/ hits_loop_end

SpecPatho == InitPatho /\ [][NextPatho]_vars

----------------------------------------------------------------------------
(* Properties *)

\* What the three mapping steps write to.
Sinks == <<intermediate.to_otus, files[VtaPath], to_subtraction>>

\* A call of a stdout handler with line l.
HandlerCall(l) ==
    \/ map_default_isolates_line(l)
    \/ map_isolates_line(l)
    \/ map_subtractions_line(l)

IsHeader(l) == l.f0 # "" /\ FirstChar(l) \in {"@", "#"}

\* The flag field is there, is a number and has bit 0x4 set.
Unmapped(l) == l.nf >= 2 /\ IsNumber(l.flag) /\ And4(int(l.flag)) = 4

NoRef(l) == l.nf >= 3 /\ l.ref = "*"

\* A complete record whose extracted score is below the cutoff.
LowScore(l) ==
    /\ l.nf = 12
    /\ IsNumber(l.flag)
    /\ find_sam_align_score(l) < p_score_cutoff

\* An empty line, a line with fields missing, a flag that is no number.
Malformed(l) ==
    /\ ~IsHeader(l)
    /\ \/ l.f0 = ""
       \/ l.nf < 12
       \/ ~IsNumber(l.flag)

Range(s) == {s[i] : i \in 1..Len(s)}

Max(a, b) == IF a >= b THEN a ELSE b

\* C1: in each of the three mapping steps, a handler call with a record whose
\* flag has the unmapped bit 0x4 set, or whose reference id is "*", leaves
\* the candidate set, the VTA file and the host score table as they were.
C1_UnmappedNeverReachesSink ==
    [][\A l \in Lines :
          (Unmapped(l) \/ NoRef(l)) /\ HandlerCall(l) => UNCHANGED Sinks]_vars

\* The targeted pass has written a record and then rejected an unmapped one.
C1_Witness ==
    /\ pc = "map_isolates_run"
    /\ outcome = "unmapped"
    /\ files[VtaPath] # Some(<<>>)

\* C2 as claimed: in the first pass, the targeted pass and the host pass, a
\* handler call with a record whose score is below p_score_cutoff leaves the
\* candidate set, the VTA file and the host score table as they were.
C2_LowScoreNeverReachesAnySink ==
    [][\A l \in Lines :
          LowScore(l) /\ HandlerCall(l) => UNCHANGED Sinks]_vars

\* C2 as amended: in the first pass and the targeted pass a record whose
\* score is below p_score_cutoff leaves the candidate set and the VTA file
\* as they were; the host pass applies no cutoff, and enters a mapped record
\* that names a reference into the host score table whatever its score.
C2_LowScoreNeverReachesIsolateSinks ==
    [][\A l \in Lines :
          /\ LowScore(l)
               /\ (map_default_isolates_line(l) \/ map_isolates_line(l))
             => UNCHANGED Sinks
          /\ LowScore(l) /\ ~IsHeader(l) /\ ~Unmapped(l) /\ ~NoRef(l)
               /\ map_subtractions_line(l)
             => /\ l.f0 \in DOMAIN to_subtraction'
                /\ to_subtraction'[l.f0] = find_sam_align_score(l)]_vars

\* The targeted pass has rejected a record for its score.
C2_Witness ==
    /\ pc = "map_isolates_run"
    /\ outcome = "lowscore"
    /\ nlines = MaxLines

\* C3: when the host pass accepts a record, the host score table afterwards
\* holds for that read the larger of the score it held and the record's
\* score (the record's score when it held none), so that it always maps a
\* read to the maximum over its accepted records and a lower later score
\* never replaces a higher earlier one.
C3_HostTableKeepsMaximum ==
    [][\A l \in Lines :
          map_subtractions_line(l)
            /\ map_subtractions_stdout_handler(l) = "accepted"
          => to_subtraction' =
                DictSet(to_subtraction, l.f0,
                        IF l.f0 \in DOMAIN to_subtraction
                        THEN Max(to_subtraction[l.f0],
                                 find_sam_align_score(l))
                        ELSE find_sam_align_score(l))]_vars

\* C4: in each of the three mapping steps, a handler call with a line whose
\* first character is "@" or "#" returns as for a header: nothing is written
\* to a sink and nothing is raised.
C4_HeaderRejectedSilently ==
    [][\A l \in Lines :
          IsHeader(l) /\ HandlerCall(l)
          => /\ UNCHANGED Sinks
             /\ outcome' = "header"
             /\ err' = "none"
             /\ pc' = pc]_vars

\* C5: in each of the three mapping steps, a handler call with a malformed
\* line (empty, fields missing, flag no number) writes nothing to a sink,
\* raises nothing and leaves the step running.
C5_MalformedLineSkipped ==
    [][\A l \in Lines :
          Malformed(l) /\ HandlerCall(l)
          => /\ UNCHANGED Sinks
             /\ err' = "none"
             /\ pc' = pc]_vars

\* C6: once subtract_mapping has completed, the file isolate_vta_path names
\* holds no record whose read the host score table maps to a score at least
\* the record's, and holds every record the targeted pass wrote that does
\* not meet that condition, and nothing else.
C6_ReassignmentReadsSubtractedSet ==
    results.subtracted_count # None =>
        LET out == files[intermediate.isolate_vta_path[1]]
            host == intermediate.to_subtraction[1]
            drop(rec) == rec[1] \in DOMAIN host /\ host[rec[1]] >= rec[5]
        IN /\ out # None
           /\ \A i \in 1..Len(out[1]) : ~drop(out[1][i])
           /\ \A j \in 1..Len(targeted) :
                 ~drop(targeted[j]) => targeted[j] \in Range(out[1])
           /\ Range(out[1]) \subseteq Range(targeted)

\* The subtraction has dropped one record of the targeted pass and kept one.
C6_Witness ==
    /\ pc = "reassignment"
    /\ Len(targeted) = 2
    /\ Len(files[VtaPath][1]) = 1

\* C7: once the first pass has ended with an empty candidate set the run is
\* aborted: write_isolate_fasta does not complete, no later step runs, and
\* results never gets ready.
C7_EmptyCandidateSetAborts ==
    pc # "map_default_isolates" /\ intermediate.to_otus = {}
    => /\ pc \in {"write_isolate_fasta", "failed"}
       /\ intermediate.lengths = None
       /\ results.ready = None

C10_CandidateSetIsDistinctIds ==
    [][map_default_isolates_return
         => /\ intermediate'.to_otus = Range(accepted)
            /\ Cardinality(intermediate'.to_otus) <= Len(accepted)]_vars

\* The first pass has accepted two records that name one reference.
C10_Witness ==
    /\ pc = "map_default_isolates"
    /\ Len(accepted) = 2
    /\ Cardinality(intermediate.to_otus) = 1


\* C11: a call of the targeted pass's handler that accepts a record appends
\* one line to the VTA file, after the lines written before, holding the
\* read id, the reference id, the position, the length of the read sequence
\* and the score, in that order; a call that rejects its line leaves the
\* file as it was.  A read with two accepted alignments has two lines.
C11_AcceptedRecordWrittenOnce ==
    [][\A l \in Lines :
          map_isolates_line(l) =>
              IF map_isolates_stdout_handler(l) = "accepted"
              THEN files'[VtaPath] =
                      Some(files[VtaPath][1] \o
                           << <<l.f0, l.ref, l.pos, l.seqlen, l.score>> >>)
              ELSE files'[VtaPath] = files[VtaPath]]_vars

\* The targeted pass has written two alignments of one read, in the order
\* they arrived.
C11_Witness ==
    /\ pc = "map_isolates_run"
    /\ files[VtaPath] = Some(<< <<"r1", "s2", 1, 2, 1>>,
                                <<"r1", "s1", 1, 2, 2>> >>)


C13_AbundancesOnSimplex ==
    pi.iterations > 0 /\ files[VtaPath] # None /\ files[VtaPath] # Some(<<>>)
    => /\ DOMAIN pi.num = RefSet(files[VtaPath][1])
       /\ \A r \in DOMAIN pi.num : pi.num[r] >= 0
       /\ pi.den > 0
       /\ SumOver(pi.num, DOMAIN pi.num) = pi.den

\* The iteration has stopped at the bound with two references of unequal,
\* positive abundance.
C13_Witness ==
    /\ pi.iterations = MaxIter
    /\ DOMAIN pi.num = {"s1", "s2"}
    /\ pi.num["s1"] > 0 /\ pi.num["s2"] > 0
    /\ pi.num["s1"] # pi.num["s2"]


\* C14: the coverage aggregation is dispatched only once the reassignment
\* pass has written reassigned.vta, and it has completed before the loop
\* reads the coverage of a hit: whenever the loop has a reference left to
\* build a hit for, intermediate.coverage is the finished table.
C14_CoverageAwaitedBeforeRead ==
    /\ intermediate.coverage.state # "unset" => files[ReassignedPath] # None
    /\ pc = "hits" /\ Len(hits) < Len(report)
       => intermediate.coverage.state = "done"


\* C15: with the steps run in their declared order, every field of the
\* intermediate holder that a step reads has been written by a step that
\* returned before it: the FASTA path before the index is built, the mapped
\* FASTQ path before the host pass, the VTA path and the host table before
\* the subtraction, the VTA path and the lengths before the reassignment.
C15_FieldsSetBeforeRead ==
    /\ pc = "build_isolate_index" => intermediate.isolate_fasta_path # None
    /\ pc = "map_subtractions"
       => intermediate.isolate_mapped_fastq_path # None
    /\ pc = "subtract_mapping"
       => /\ intermediate.isolate_vta_path # None
          /\ intermediate.to_subtraction # None
    /\ pc = "reassignment"
       => /\ intermediate.isolate_vta_path # None
          /\ intermediate.lengths # None

C15_Witness ==
    /\ pc = "reassignment"
    /\ intermediate.to_otus = {"s1", "s2"}
    /\ intermediate.lengths # None
    /\ intermediate.isolate_vta_path = Some(VtaPath)
    /\ intermediate.to_subtraction # None
    /\ intermediate.to_subtraction # Some(EmptyDict)

\* C16: the candidate set only grows while the first pass runs, and no
\* later step adds to it or removes from it.
C16_CandidateSetFrozenAfterFirstPass ==
    [][/\ intermediate.to_otus \subseteq intermediate'.to_otus
       /\ pc # "map_default_isolates"
          => intermediate'.to_otus = intermediate.to_otus]_vars

C16_Witness ==
    /\ pc = "hits"
    /\ Cardinality(intermediate.to_otus) = 2
    /\ report # <<>>


\* The handles map_isolates publishes.
IsolateHandles(i) ==
    <<i.isolate_vta_path, i.isolate_mapped_fastq_path, i.isolate_bt2_path>>

\* C17: a mapping step publishes its handles only when its aligner run has
\* returned: the three handles of map_isolates are unset until the step
\* returns, after which nothing is written to the VTA file by the step, the
\* host table is unset until map_subtractions returns, and a step that
\* raises leaves the holder as it was.
C17_HandlesPublishedOnReturn ==
    [][/\ IsolateHandles(intermediate') # IsolateHandles(intermediate)
          => /\ pc = "map_isolates_run" /\ pc' = "map_subtractions"
             /\ IsolateHandles(intermediate) = <<None, None, None>>
             /\ files' = files
             /\ files[VtaPath] # None
       /\ intermediate'.to_subtraction # intermediate.to_subtraction
          => /\ pc = "map_subtractions" /\ pc' = "subtract_mapping"
             /\ intermediate.to_subtraction = None
             /\ intermediate'.to_subtraction = Some(to_subtraction)
       /\ pc \in {"map_isolates", "map_isolates_run"}
          => IsolateHandles(intermediate) = <<None, None, None>>
       /\ pc = "map_subtractions" => intermediate.to_subtraction = None
       /\ pc' = "failed" => intermediate' = intermediate]_vars

\* The targeted pass has written a record and its aligner then failed.
C17_Witness ==
    /\ pc = "failed"
    /\ err = "SubprocessError"
    /\ files[VtaPath] # None
    /\ files[VtaPath] # Some(<<>>)
    /\ IsolateHandles(intermediate) = <<None, None, None>>

\* C18: ready is set only by the final update of the reassignment step,
\* together with read_count and the complete list of hits; that update
\* keeps the subtracted_count subtract_mapping stored, nothing changes it
\* once stored, and a run that raises does not set ready.
C18_ReadySetOnlyByFinalUpdate ==
    [][/\ results'.ready # results.ready
          => /\ pc = "hits" /\ pc' = "done"
             /\ Len(hits) = Len(report)
             /\ results'.ready = Some(TRUE)
             /\ results'.read_count = Some(read_count)
             /\ results'.results = Some(hits)
             /\ results.subtracted_count # None
       /\ results.subtracted_count # None
          => results'.subtracted_count = results.subtracted_count
       /\ results.ready = None
          => results.read_count = None /\ results.results = None
       /\ pc' = "failed" => results'.ready = None]_vars

\* The run is done after a subtraction that dropped a read.
C18_Witness ==
    /\ pc = "done"
    /\ results.ready = Some(TRUE)
    /\ results.subtracted_count = Some(1)
    /\ results.read_count = Some(read_count)

====
